---------------------------- MODULE Spec2Model ----------------------------
(***************************************************************************)
(* A model of the SCF solver class of qm_2019_sss_6 (scf.py).              *)
(*                                                                         *)
(* Matrices are sequences of rows.  The Hamiltonian, interaction matrix,   *)
(* chi tensor, Fock matrix and the density matrices built by               *)
(* calculate_density_matrix are integer valued.  The mixed density         *)
(* old_density_matrix of scf_cycle is an exact fraction (numerators over a *)
(* common denominator), held in arbitrary precision because a run of       *)
(* kernel() at the default mixing fraction 1/4 and tolerance 1e-4 needs    *)
(* denominators up to 4^34.                                                *)
(*                                                                         *)
(* numpy.linalg.eigh is modelled on diagonal matrices (eigenvalues are the *)
(* diagonal sorted ascending, ties kept in index order, eigenvectors are   *)
(* unit vectors); the systems drawn by Init keep every Fock matrix         *)
(* diagonal and free of equal eigenvalues, which FockStaysDiagonal states. *)
(***************************************************************************)
EXTENDS Integers, Sequences, FiniteSets, TLC

(***************************************************************************)
(* Bounds of the model.                                                    *)
(***************************************************************************)
MaxIter == 2
MaxCalls == 2
MaxN == 4
MaxQ == 7
MaxK == 3

(***************************************************************************)
(* Arbitrary-precision naturals: little-endian limbs, no leading zeros.    *)
(***************************************************************************)
Base == 100 * 100

RECURSIVE BigOf(_)
BigOf(i) == IF i = 0 THEN << >> ELSE << i % Base >> \o BigOf(i \div Base)

RECURSIVE BigAddC(_, _, _)
BigAddC(a, b, c) ==
  IF a = << >> /\ b = << >>
  THEN (IF c = 0 THEN << >> ELSE << c >>)
  ELSE LET x == IF a = << >> THEN 0 ELSE Head(a)
           y == IF b = << >> THEN 0 ELSE Head(b)
           s == x + y + c
           ta == IF a = << >> THEN << >> ELSE Tail(a)
           tb == IF b = << >> THEN << >> ELSE Tail(b)
       IN << s % Base >> \o BigAddC(ta, tb, s \div Base)

BigAdd(a, b) == BigAddC(a, b, 0)

RECURSIVE BigMulSmallC(_, _, _)
BigMulSmallC(a, k, c) ==
  IF a = << >>
  THEN BigOf(c)
  ELSE LET s == Head(a) * k + c
       IN << s % Base >> \o BigMulSmallC(Tail(a), k, s \div Base)

RECURSIVE BigTrim(_)
BigTrim(a) ==
  IF a = << >> THEN << >>
  ELSE IF a[Len(a)] = 0 THEN BigTrim(SubSeq(a, 1, Len(a) - 1)) ELSE a

\* a * k for a small natural k (k <= Base)
BigMulSmall(a, k) == BigTrim(BigMulSmallC(a, k, 0))

RECURSIVE BigMul(_, _)
BigMul(a, b) ==
  IF a = << >> \/ b = << >>
  THEN << >>
  ELSE BigAdd(BigMulSmall(a, Head(b)),
              LET r == BigMul(a, Tail(b))
              IN IF r = << >> THEN << >> ELSE << 0 >> \o r)

RECURSIVE BigLessFrom(_, _, _)
BigLessFrom(a, b, i) ==
  IF i = 0 THEN FALSE
  ELSE IF a[i] # b[i] THEN a[i] < b[i]
  ELSE BigLessFrom(a, b, i - 1)

BigLess(a, b) ==
  IF Len(a) # Len(b) THEN Len(a) < Len(b) ELSE BigLessFrom(a, b, Len(a))

\* a - b for a >= b
RECURSIVE BigSubC(_, _, _)
BigSubC(a, b, c) ==
  IF a = << >>
  THEN << >>
  ELSE LET y == IF b = << >> THEN 0 ELSE Head(b)
           tb == IF b = << >> THEN << >> ELSE Tail(b)
           s == Head(a) - y - c
       IN IF s < 0
          THEN << s + Base >> \o BigSubC(Tail(a), tb, 1)
          ELSE << s >> \o BigSubC(Tail(a), tb, 0)

BigAbsDiff(a, b) ==
  IF BigLess(a, b) THEN BigTrim(BigSubC(b, a, 0)) ELSE BigTrim(BigSubC(a, b, 0))

(***************************************************************************)
(* Integer matrices.                                                       *)
(***************************************************************************)
RECURSIVE SumTo(_, _)
\* f[1] + ... + f[k]
SumTo(f, k) == IF k = 0 THEN 0 ELSE f[k] + SumTo(f, k - 1)

DiagMatrix(d) == [p \in 1..Len(d) |-> [q \in 1..Len(d) |-> IF p = q THEN d[p] ELSE 0]]

IsDiagonal(A) == \A p \in 1..Len(A) : \A q \in 1..Len(A[p]) : p # q => A[p][q] = 0

MatAdd(A, B) == [p \in 1..Len(A) |-> [q \in 1..Len(A[p]) |-> A[p][q] + B[p][q]]]

Trace(A) == SumTo([p \in 1..Len(A) |-> A[p][p]], Len(A))

\* sum over p, q of A[p][q] * B[p][q]   (np.einsum('pq,pq', A, B))
Contract(A, B) ==
  SumTo([p \in 1..Len(A) |->
           SumTo([q \in 1..Len(A[p]) |-> A[p][q] * B[p][q]], Len(A[p]))], Len(A))

(***************************************************************************)
(* The tensor contractions of the Fock matrix.  chi[p][q][t] has p, q over *)
(* the orbitals and t over the rows of the interaction matrix M.           *)
(***************************************************************************)
\* np.einsum('pqt,rsu,tu,rs', chi, chi, M, D)[p][q]
Coulomb(chi, M, D, p, q) ==
  LET n == Len(D)
      m == Len(M)
  IN SumTo([t \in 1..m |->
       SumTo([r \in 1..n |->
         SumTo([s \in 1..n |->
           SumTo([u \in 1..m |->
             chi[p][q][t] * chi[r][s][u] * M[t][u] * D[r][s]], m)], n)], n)], m)

\* np.einsum('rqt,psu,tu,rs', chi, chi, M, D)[p][q]
Exchange(chi, M, D, p, q) ==
  LET n == Len(D)
      m == Len(M)
  IN SumTo([t \in 1..m |->
       SumTo([r \in 1..n |->
         SumTo([s \in 1..n |->
           SumTo([u \in 1..m |->
             chi[r][q][t] * chi[p][s][u] * M[t][u] * D[r][s]], m)], n)], n)], m)

\* H + 2 * Coulomb - Exchange
FockFormula(H, M, D, chi) ==
  [p \in 1..Len(H) |-> [q \in 1..Len(H) |->
     H[p][q] + 2 * Coulomb(chi, M, D, p, q) - Exchange(chi, M, D, p, q)]]

(***************************************************************************)
(* numpy.linalg.eigh on a diagonal matrix: column j of orbital_matrix is   *)
(* the unit vector of the j-th smallest diagonal entry.                    *)
(***************************************************************************)
EighRank(F, p) ==
  1 + Cardinality({q \in 1..Len(F) :
                     F[q][q] < F[p][p] \/ (F[q][q] = F[p][p] /\ q < p)})

eigh_orbital_matrix(F) ==
  [p \in 1..Len(F) |-> [j \in 1..Len(F) |-> IF EighRank(F, p) = j THEN 1 ELSE 0]]

\* the number of columns the Python slice [:, :stop] keeps of n columns
SliceStop(stop, n) ==
  IF stop < 0
  THEN (IF n + stop < 0 THEN 0 ELSE n + stop)
  ELSE (IF stop > n THEN n ELSE stop)

\* the mutated order of the two floor divisions
NumOccReordered(Q, n, K) == (Q \div (2 * K)) * n

\* num_occ = (self.ionic_charge // 2) * np.size(fock_matrix, 0) // self.orbitals_per_atom
NumOcc(Q, n, K) == ((Q \div 2) * n) \div K

\* a slice that takes one column too many
OccupiedColumnsOffByOne(num_occ, n) == SliceStop(num_occ + 1, n)

\* orbital_matrix[:, :num_occ] : the columns 1..OccupiedColumns are kept
OccupiedColumns(num_occ, n) == SliceStop(num_occ, n)

\* occupied_matrix @ occupied_matrix.T for the first c columns of C
OccupiedProduct(C, c) ==
  [p \in 1..Len(C) |-> [q \in 1..Len(C) |->
     SumTo([j \in 1..c |-> C[p][j] * C[q][j]], c)]]

\* the Fock matrix alone, without the Hamiltonian
EnergyOfFockOnly(H, F, D) == Contract(F, D)

\* np.einsum('pq,pq', hamiltonian_matrix + fock_matrix, density_matrix)
calculate_energy_scf(H, F, D) == Contract(MatAdd(H, F), D)

(***************************************************************************)
(* The mixed density: numerators num[p][q] over the common denominator den.*)
(***************************************************************************)
\* self.density_matrix.copy()
CopyDensity(D) ==
  [num |-> [p \in 1..Len(D) |-> [q \in 1..Len(D) |-> BigOf(D[p][q])]],
   den |-> BigOf(1)]

\* mixing_fraction * density_matrix + (1.0 - mixing_fraction) * old_density_matrix
MixDensity(mix, D, old) ==
  [num |-> [p \in 1..Len(D) |-> [q \in 1..Len(D) |->
             BigAdd(BigMulSmall(old.den, mix.n * D[p][q]),
                    BigMulSmall(old.num[p][q], mix.d - mix.n))]],
   den |-> BigMulSmall(old.den, mix.d)]

\* den^2 * |old - D|^2 : the squared Frobenius norm of old - D, scaled
ScaledSquaredNorm(old, D) ==
  LET n == Len(D)
      sq[k \in 0..(n * n)] ==
        IF k = 0 THEN << >>
        ELSE LET p == ((k - 1) \div n) + 1
                 q == ((k - 1) % n) + 1
                 e == BigAbsDiff(old.num[p][q], BigMulSmall(old.den, D[p][q]))
             IN BigAdd(sq[k - 1], BigMul(e, e))
  IN sq[n * n]

\* a test that also accepts a residual equal to the tolerance
ErrorAtMostTolerance(old, D, tol) ==
  ~ BigLess(BigMul(BigMul(BigOf(tol.n), BigOf(tol.n)), BigMul(old.den, old.den)),
            BigMul(ScaledSquaredNorm(old, D), BigMul(BigOf(tol.d), BigOf(tol.d))))

\* error_norm = np.linalg.norm(old_density_matrix - density_matrix)
\* error_norm < convergence_tolerance, compared on the squares
ErrorBelowTolerance(old, D, tol) ==
  BigLess(BigMul(ScaledSquaredNorm(old, D), BigMul(BigOf(tol.d), BigOf(tol.d))),
          BigMul(BigMul(BigOf(tol.n), BigOf(tol.n)), BigMul(old.den, old.den)))

(***************************************************************************)
(* The solver.                                                             *)
(***************************************************************************)
VARIABLES
  \* the fields of the scf object; fock_matrix, energy_scf and total_energy
  \* are << >> until assigned and << value >> afterwards
  hamiltonian_matrix, interaction_matrix, density_matrix, chi_tensor,
  energy_ion, ionic_charge, orbitals_per_atom, converged,
  fock_matrix, energy_scf, total_energy,
  \* control: "idle" between calls, "loop" at the head of scf_cycle's for
  \* loop, "kernel_ret" when scf_cycle has returned into kernel
  pc, caller,
  \* the arguments and locals of the running scf_cycle call; the locals
  \* density_matrix and fock_matrix are << >> while unbound
  max_scf_iterations, mixing_fraction, convergence_tolerance,
  iteration, old_density_matrix, loop_density, loop_fock,
  \* what the last call returned or raised (reset when a call that loops is
  \* entered), and whether the last scf_cycle call printed the warning
  ret, warned,
  \* history: number of calls made; of the most recent scf_cycle call the
  \* fields at entry, the number of operator builds, the density passed to
  \* the latest build, the density the iteration before it produced, the
  \* baseline of the latest convergence test and how the call ended
  calls, entry, builds, fock_input, prev_density, tested_old, cycle_outcome,
  \* the density field at the entry of the running kernel call, the record
  \* of every finished kernel call, and the last application of
  \* calculate_density_matrix made directly
  kernel_entry, kernelLog, dm

fields == << hamiltonian_matrix, interaction_matrix, density_matrix, chi_tensor,
             energy_ion, ionic_charge, orbitals_per_atom, converged,
             fock_matrix, energy_scf, total_energy >>

parameters == << hamiltonian_matrix, interaction_matrix, chi_tensor,
                 energy_ion, ionic_charge, orbitals_per_atom >>

frame == << max_scf_iterations, mixing_fraction, convergence_tolerance,
            iteration, old_density_matrix, loop_density, loop_fock >>

history == << calls, entry, builds, fock_input, prev_density, tested_old,
              cycle_outcome >>

vars == << fields, pc, caller, frame, ret, warned, history,
           kernel_entry, kernelLog, dm >>

\* def scf_cycle(self, max_scf_iterations = 100, ...
DefaultMaxIterations == 100
\* mixing_fraction = 0.25
DefaultMixing == [n |-> 1, d |-> 4]
\* convergence_tolerance = 1e-4
DefaultTolerance == [n |-> 1, d |-> 10000]
\* dipole = 2.781629275106456
dipole == "2.781629275106456"

(***************************************************************************)
(* The methods that compute without assigning.                             *)
(***************************************************************************)
\* ff.fast_fock_matrix: the collaborator, by its contract equal to the
\* reference formula with the coupling tensor of the system
ff_fast_fock_matrix(H, M, D, dip) == FockFormula(H, M, D, chi_tensor)

fast_fock_matrix(H, M, D) == ff_fast_fock_matrix(H, M, D, dipole)

\* the reference build reads the fields, not its four arguments
calculate_fock_matrix(H, M, D, chi) ==
  FockFormula(hamiltonian_matrix, interaction_matrix, density_matrix, chi_tensor)

calculate_density_matrix(F) ==
  LET num_occ == NumOcc(ionic_charge, Len(F), orbitals_per_atom)
      orbital_matrix == eigh_orbital_matrix(F)
  IN OccupiedProduct(orbital_matrix, OccupiedColumns(num_occ, Len(F)))

\* initialize() that keeps the density once a Fock matrix exists
InitializeDensityLazy ==
  IF fock_matrix # << >> THEN density_matrix
  ELSE calculate_density_matrix(
         fast_fock_matrix(hamiltonian_matrix, interaction_matrix, density_matrix))

\* self.fock_matrix = self.fast_fock_matrix(H, M, self.density_matrix)
InitializeFock ==
  fast_fock_matrix(hamiltonian_matrix, interaction_matrix, density_matrix)

\* self.density_matrix = self.calculate_density_matrix(self.fock_matrix)
InitializeDensity == calculate_density_matrix(InitializeFock)

(***************************************************************************)
(* Construction.  The systems have two orbitals; the coupling tensor ties  *)
(* orbital p to row p of the interaction matrix.                           *)
(***************************************************************************)
HamiltonianSet == { DiagMatrix(<< 0, 1 >>) }

InteractionSet ==
  { << << 0, 1 >>, << 1, 0 >> >>, << << 3, 0 >>, << 0, 3 >> >>,
    << << 3, 0 >>, << 0, -2 >> >> }

DensitySet == { DiagMatrix(<< 0, 0 >>), DiagMatrix(<< 1, 0 >>) }

SiteChi ==
  [p \in 1..2 |-> [q \in 1..2 |-> [t \in 1..2 |->
     IF p = q /\ q = t THEN 1 ELSE 0]]]

\* (ionic_charge, orbitals_per_atom)
ChargeSet == { << 2, 2 >>, << 2, 1 >> }

NoReturn == [op |-> "none", outcome |-> "none", val |-> << >>, args |-> << >>]

NoEntry == [density |-> << >>, fock |-> << >>, parameters |-> << >>]

NoDensityCall == [F |-> << >>, num_occ |-> 0, columns |-> 0, D |-> << >>]

\* __init__, and the bookkeeping of a solver on which nothing was called
Constructed(H, M, D0, chi, E, Q, K) ==
  /\ hamiltonian_matrix = H
  /\ interaction_matrix = M
  /\ density_matrix = D0
  /\ chi_tensor = chi
  /\ energy_ion = E
  /\ ionic_charge = Q
  /\ converged = FALSE
  /\ orbitals_per_atom = K
  /\ fock_matrix = << >>
  /\ energy_scf = << >>
  /\ total_energy = << >>
  /\ pc = "idle"
  /\ caller = "user"
  /\ max_scf_iterations = 0
  /\ mixing_fraction = DefaultMixing
  /\ convergence_tolerance = DefaultTolerance
  /\ iteration = 0
  /\ old_density_matrix = CopyDensity(D0)
  /\ loop_density = << >>
  /\ loop_fock = << >>
  /\ ret = NoReturn
  /\ warned = FALSE
  /\ calls = 0
  /\ entry = NoEntry
  /\ builds = 0
  /\ fock_input = << >>
  /\ prev_density = << >>
  /\ tested_old = CopyDensity(D0)
  /\ cycle_outcome = "none"
  /\ kernel_entry = << >>
  /\ kernelLog = { }
  /\ dm = NoDensityCall

Init ==
  \E H \in HamiltonianSet, M \in InteractionSet, D0 \in DensitySet,
     QK \in ChargeSet :
    Constructed(H, M, D0, SiteChi, 1, QK[1], QK[2])

(***************************************************************************)
(* initialize()                                                            *)
(***************************************************************************)
Initialize ==
  /\ pc = "idle"
  /\ calls < MaxCalls
  /\ fock_matrix' = << InitializeFock >>
  /\ density_matrix' = InitializeDensity
  /\ ret' = [op |-> "initialize", outcome |-> "value", val |-> << >>,
             args |-> << >>]
  /\ calls' = calls + 1
  /\ UNCHANGED << parameters, converged, energy_scf, total_energy, pc, caller,
                  frame, warned, entry, builds, fock_input, prev_density,
                  tested_old, cycle_outcome, kernel_entry, kernelLog, dm >>

(***************************************************************************)
(* scf_cycle(max_scf_iterations, mixing_fraction, convergence_tolerance)   *)
(***************************************************************************)
\* line 59 and the start of the for loop
EnterCycle(mx, mix, tol, D) ==
  /\ max_scf_iterations' = mx
  /\ mixing_fraction' = mix
  /\ convergence_tolerance' = tol
  /\ old_density_matrix' = CopyDensity(D)
  /\ iteration' = 0
  /\ loop_density' = << >>
  /\ loop_fock' = << >>
  /\ pc' = "loop"
  /\ warned' = FALSE
  /\ builds' = 0
  /\ fock_input' = << >>
  /\ prev_density' = << >>
  /\ tested_old' = CopyDensity(D)
  /\ cycle_outcome' = "running"
  /\ calls' = calls + 1

MixingSet == { DefaultMixing, [n |-> 1, d |-> 2] }

ToleranceSet == { DefaultTolerance, [n |-> 1, d |-> 1] }

ScfCycleCall ==
  /\ pc = "idle"
  /\ calls < MaxCalls
  /\ \E mx \in 0..MaxIter, mix \in MixingSet, tol \in ToleranceSet :
       EnterCycle(mx, mix, tol, density_matrix)
  /\ caller' = "user"
  /\ entry' = [density |-> density_matrix, fock |-> fock_matrix,
               parameters |-> parameters]
  /\ ret' = NoReturn
  /\ UNCHANGED << fields, kernel_entry, kernelLog, dm >>

\* a loop body that writes the new density back to the field
CycleFrameStoring ==
  /\ density_matrix' =
       IF loop_density' = << >> THEN density_matrix ELSE loop_density'[1]
  /\ UNCHANGED << parameters, fock_matrix, energy_scf, total_energy >>

\* scf_cycle assigns no field but converged
CycleFrame ==
  UNCHANGED << parameters, density_matrix, fock_matrix, energy_scf,
               total_energy >>

\* where scf_cycle's return goes
ReturnTo == IF caller = "kernel" THEN "kernel_ret" ELSE "idle"

\* one pass of the loop body, lines 61-72
LoopIter ==
  /\ pc = "loop"
  /\ iteration < max_scf_iterations
  /\ LET F == fast_fock_matrix(hamiltonian_matrix, interaction_matrix,
                               density_matrix)
         D == calculate_density_matrix(F)
     IN /\ loop_fock' = << F >>
        /\ loop_density' = << D >>
        /\ fock_input' = << density_matrix >>
        /\ prev_density' = loop_density
        /\ tested_old' = old_density_matrix
        /\ builds' = builds + 1
        /\ IF ErrorBelowTolerance(old_density_matrix, D, convergence_tolerance)
           THEN /\ converged' = TRUE
                /\ ret' = [op |-> "scf_cycle", outcome |-> "value",
                           val |-> << D, F >>, args |-> << >>]
                /\ pc' = ReturnTo
                /\ cycle_outcome' = "converged"
                /\ UNCHANGED << old_density_matrix, iteration >>
           ELSE /\ old_density_matrix' =
                     MixDensity(mixing_fraction, D, old_density_matrix)
                /\ iteration' = iteration + 1
                /\ UNCHANGED << converged, ret, pc, cycle_outcome >>
  /\ CycleFrame
  /\ UNCHANGED << caller, max_scf_iterations, mixing_fraction,
                  convergence_tolerance, warned, calls, entry, kernel_entry,
                  kernelLog, dm >>

\* the loop is exhausted, lines 73-74: the warning, then the return of the
\* locals, which raises UnboundLocalError when no pass bound them
LoopExit ==
  /\ pc = "loop"
  /\ iteration >= max_scf_iterations
  /\ warned' = TRUE
  /\ IF loop_density = << >>
     THEN /\ ret' = [op |-> "scf_cycle", outcome |-> "raised",
                     val |-> << "UnboundLocalError" >>, args |-> << >>]
          /\ pc' = "idle"
          /\ cycle_outcome' = "raised"
     ELSE /\ ret' = [op |-> "scf_cycle", outcome |-> "value",
                     val |-> << loop_density[1], loop_fock[1] >>,
                     args |-> << >>]
          /\ pc' = ReturnTo
          /\ cycle_outcome' = "exhausted"
  /\ UNCHANGED << converged, caller, frame, calls, entry, builds, fock_input,
                  prev_density, tested_old, kernel_entry, kernelLog, dm >>
  /\ CycleFrame

(***************************************************************************)
(* kernel()                                                                *)
(***************************************************************************)
\* lines 182-183 up to the loop of scf_cycle()
KernelCall ==
  /\ pc = "idle"
  /\ calls < MaxCalls
  /\ fock_matrix' = << InitializeFock >>
  /\ density_matrix' = InitializeDensity
  /\ EnterCycle(DefaultMaxIterations, DefaultMixing, DefaultTolerance,
                density_matrix')
  /\ caller' = "kernel"
  /\ entry' = [density |-> density_matrix', fock |-> fock_matrix',
               parameters |-> parameters]
  /\ kernel_entry' = << density_matrix >>
  /\ ret' = NoReturn
  /\ UNCHANGED << parameters, converged, energy_scf, total_energy,
                  kernelLog, dm >>

\* lines 183-186 once scf_cycle() has returned
KernelFinish ==
  /\ pc = "kernel_ret"
  /\ density_matrix' = ret.val[1]
  /\ fock_matrix' = << ret.val[2] >>
  /\ energy_scf' = << calculate_energy_scf(hamiltonian_matrix,
                                           fock_matrix'[1], density_matrix') >>
  /\ total_energy' = << energy_ion + energy_scf'[1] >>
  /\ ret' = [op |-> "kernel", outcome |-> "value", val |-> total_energy',
             args |-> << >>]
  /\ kernelLog' = kernelLog \cup
       { [call |-> calls, start |-> kernel_entry[1],
          energy |-> total_energy'[1]] }
  /\ pc' = "idle"
  /\ UNCHANGED << parameters, converged, caller, frame, warned, history,
                  kernel_entry, dm >>

(***************************************************************************)
(* Direct calls of the two operator builds.                                *)
(***************************************************************************)
FockArguments ==
  { [H |-> H, M |-> interaction_matrix, D |-> D, chi |-> chi_tensor] :
      H \in { hamiltonian_matrix },
      D \in { density_matrix, DiagMatrix(<< 0, 1 >>) } }

CalculateFockCall ==
  /\ pc = "idle"
  /\ \E a \in FockArguments :
       ret' = [op |-> "calculate_fock_matrix", outcome |-> "value",
               val |-> << calculate_fock_matrix(a.H, a.M, a.D, a.chi) >>,
               args |-> << a >>]
  /\ UNCHANGED << fields, pc, caller, frame, warned, history, kernel_entry,
                  kernelLog, dm >>

FastFockCall ==
  /\ pc = "idle"
  /\ \E a \in FockArguments :
       ret' = [op |-> "fast_fock_matrix", outcome |-> "value",
               val |-> << fast_fock_matrix(a.H, a.M, a.D) >>,
               args |-> << a >>]
  /\ UNCHANGED << fields, pc, caller, frame, warned, history, kernel_entry,
                  kernelLog, dm >>

Next ==
  \/ Initialize
  \/ ScfCycleCall
  \/ LoopIter
  \/ LoopExit
  \/ KernelCall
  \/ KernelFinish
  \/ CalculateFockCall
  \/ FastFockCall

Spec == Init /\ [][Next]_vars

(***************************************************************************)
(* Direct calls of calculate_density_matrix, on diagonal operators of any  *)
(* dimension up to MaxN, for solvers built with any charge from -MaxQ to   *)
(* MaxQ and any orbital count from 1 to MaxK.                              *)
(***************************************************************************)
\* rising, falling and constant diagonals
DiagonalSet ==
  UNION { { DiagMatrix([p \in 1..n |-> p]), DiagMatrix([p \in 1..n |-> n - p]),
            DiagMatrix([p \in 1..n |-> 0]) } : n \in 0..MaxN }

CalculateDensityCall ==
  /\ pc = "idle"
  /\ \E F \in DiagonalSet :
       LET num_occ == NumOcc(ionic_charge, Len(F), orbitals_per_atom)
           D == calculate_density_matrix(F)
       IN /\ dm' = [F |-> F, num_occ |-> num_occ,
                    columns |-> OccupiedColumns(num_occ, Len(F)), D |-> D]
          /\ ret' = [op |-> "calculate_density_matrix", outcome |-> "value",
                     val |-> << D >>, args |-> << F >>]
  /\ UNCHANGED << fields, pc, caller, frame, warned, history, kernel_entry,
                  kernelLog >>

InitDensity ==
  \E Q \in (0 - MaxQ)..MaxQ, K \in 1..MaxK :
    Constructed(DiagMatrix(<< 0, 1 >>), << << 0, 1 >>, << 1, 0 >> >>,
                DiagMatrix(<< 0, 0 >>), SiteChi, 1, Q, K)

NextDensity == CalculateDensityCall

SpecDensity == InitDensity /\ [][NextDensity]_vars

\* the model's eigh is defined on diagonal matrices, and the systems of Init
\* never give it equal eigenvalues
FockStaysDiagonal ==
  /\ fock_matrix # << >> =>
       IsDiagonal(fock_matrix[1]) /\ fock_matrix[1][1][1] # fock_matrix[1][2][2]
  /\ loop_fock # << >> =>
       IsDiagonal(loop_fock[1]) /\ loop_fock[1][1][1] # loop_fock[1][2][2]
  /\ IsDiagonal(density_matrix)

(***************************************************************************)
(* Properties.                                                             *)
(***************************************************************************)
\* the squares of the tolerance and of the residual |old - D|, brought to
\* the common denominator (old.den * tol.d)^2
ToleranceSquared(old, tol) ==
  BigMul(BigMul(old.den, old.den), BigOf(tol.n * tol.n))

ResidualSquared(old, D, tol) ==
  BigMul(ScaledSquaredNorm(old, D), BigOf(tol.d * tol.d))

\* the latest convergence test of the scf_cycle call found the residual
\* strictly below the tolerance
LatestResidualBelow ==
  BigLess(ResidualSquared(tested_old, loop_density[1], convergence_tolerance),
          ToleranceSquared(tested_old, convergence_tolerance))

KernelRunning == caller = "kernel" /\ pc \in { "loop", "kernel_ret" }

\* C1: kernel() runs initialize() first (the Fock matrix of the entry
\* density and the density built from it are in the fields while scf_cycle
\* runs), then scf_cycle() with the default arguments, stores the pair
\* scf_cycle returned in density_matrix and fock_matrix, and returns
\* energy_ion + sum over p,q of (H + F)[p][q] * D[p][q] on the stored F, D.
KernelStoresPairAndReturnsItsEnergy ==
  /\ KernelRunning =>
       /\ max_scf_iterations = 100
       /\ mixing_fraction = [n |-> 1, d |-> 4]
       /\ convergence_tolerance = [n |-> 1, d |-> 10000]
       /\ fock_matrix = << FockFormula(hamiltonian_matrix, interaction_matrix,
                                       kernel_entry[1], chi_tensor) >>
       /\ density_matrix = calculate_density_matrix(fock_matrix[1])
       /\ builds = 0 => old_density_matrix = CopyDensity(density_matrix)
  /\ pc = "kernel_ret" =>
       ret.op = "scf_cycle" /\ ret.val = << loop_density[1], loop_fock[1] >>
  /\ ret.op = "kernel" =>
       /\ density_matrix = loop_density[1]
       /\ fock_matrix = loop_fock
       /\ energy_scf = << Contract(hamiltonian_matrix, density_matrix)
                          + Contract(fock_matrix[1], density_matrix) >>
       /\ total_energy = << energy_ion + energy_scf[1] >>
       /\ ret.outcome = "value"
       /\ ret.val = total_energy

\* a kernel() call has returned after a loop of more than one pass, with an
\* electronic energy that is not zero
KernelReturnedAfterLoop ==
  /\ ret.op = "kernel"
  /\ cycle_outcome = "converged"
  /\ builds > 1
  /\ energy_scf # << 0 >>
  /\ Contract(hamiltonian_matrix, density_matrix) # 0

\* C2: at the first pass of scf_cycle whose residual is strictly below the
\* tolerance, converged is set and the call returns that pass's (D, F): the
\* baseline is not mixed, the loop index does not advance and nothing more
\* is built; a pass whose residual is not below the tolerance (equal
\* included) does not end the call as converged.
ConvergedPassReturnsAtOnce ==
  builds >= 1 =>
    IF LatestResidualBelow
    THEN /\ cycle_outcome = "converged"
         /\ converged
         /\ pc # "loop"
         /\ old_density_matrix = tested_old
         /\ builds = iteration + 1
         /\ ret.op # "none"
         /\ ret.op = "scf_cycle" =>
              ret.outcome = "value"
              /\ ret.val = << loop_density[1], loop_fock[1] >>
    ELSE /\ cycle_outcome # "converged"
         /\ builds = iteration
         /\ pc = "loop" => ret.op = "none"

\* a call converged at its second pass, after a first pass whose residual
\* was exactly the tolerance
ConvergedAfterResidualEqualTolerance ==
  /\ cycle_outcome = "converged"
  /\ builds = 2
  /\ ret.op = "scf_cycle"
  /\ ResidualSquared(CopyDensity(entry.density), loop_density[1],
                     convergence_tolerance)
       = ToleranceSquared(CopyDensity(entry.density), convergence_tolerance)

\* C3: a scf_cycle call in which no residual was below the tolerance ends
\* normally for every max_scf_iterations >= 0: after exactly
\* max_scf_iterations passes it prints the warning and returns the (D, F)
\* of the last pass; it does not raise.
ExhaustedCycleReturnsLastPair ==
  cycle_outcome \notin { "none", "running", "converged" } =>
    /\ cycle_outcome = "exhausted"
    /\ warned
    /\ builds = max_scf_iterations
    /\ ret.op = "scf_cycle" =>
         ret.outcome = "value"
         /\ ret.val = << loop_density[1], loop_fock[1] >>

\* C4: whenever the most recent scf_cycle call has returned without a
\* residual below its tolerance, converged is False.
ConvergedFlagTellsLastCycle ==
  (pc # "loop" /\ cycle_outcome = "exhausted") => ~ converged

\* C5: after a pass that did not converge the baseline is
\* mixing_fraction * new_D + (1 - mixing_fraction) * old_D, and the next
\* pass builds its operator from the un-mixed new_D of the pass before.
NextBuildTakesUnmixedDensity ==
  /\ (builds >= 1 /\ cycle_outcome # "converged") =>
       old_density_matrix =
         MixDensity(mixing_fraction, loop_density[1], tested_old)
  /\ builds >= 2 => fock_input = prev_density

\* C6, as claimed: every kernel() call on a solver returns the same
\* total_energy.
KernelAlwaysSameEnergy ==
  \A a \in kernelLog : \A b \in kernelLog : a.energy = b.energy

\* C6, amended: kernel() calls that start from the same density_matrix
\* field return the same total_energy, whatever was called before them.
KernelSameEnergyFromSameDensity ==
  \A a \in kernelLog : \A b \in kernelLog :
    a.start = b.start => a.energy = b.energy

\* two kernel() calls of one solver started from the same density
TwoKernelCallsFromSameDensity ==
  \E a \in kernelLog : \E b \in kernelLog :
    a.call # b.call /\ a.start = b.start

DensityCalled == ret.op = "calculate_density_matrix"

\* C7: num_occ is the floor of ((floor of Q / 2) * n) / K: with h the
\* integer such that 2h <= Q < 2h + 2, K * num_occ <= h * n < K * (num_occ
\* + 1); for Q = 4, K = 2, n = 4 it is 4.
NumOccFloorsInOrder ==
  DensityCalled =>
    LET Q == ionic_charge
        K == orbitals_per_atom
        n == Len(dm.F)
        h == CHOOSE x \in (0 - MaxQ - 1)..MaxQ : 2 * x <= Q /\ Q < 2 * x + 2
    IN /\ K * dm.num_occ <= h * n
       /\ h * n < K * (dm.num_occ + 1)
       /\ (Q = 4 /\ K = 2 /\ n = 4) => dm.num_occ = 4

\* a call with Q = 3 on which dividing by 2 * K first gives another count
NumOccDiffersFromReordering ==
  /\ DensityCalled
  /\ ionic_charge = 3
  /\ dm.num_occ # (ionic_charge \div (2 * orbitals_per_atom)) * Len(dm.F)
  /\ dm.num_occ > 0

\* C8, as claimed: for every Q and K >= 1, num_occ is between 0 and n and
\* the number of eigenvectors used, the trace of D, is num_occ.
OccupationWithinDimension ==
  DensityCalled =>
    /\ 0 <= dm.num_occ
    /\ dm.num_occ <= Len(dm.F)
    /\ dm.columns = dm.num_occ
    /\ Trace(dm.D) = dm.num_occ

\* C8, amended: D is the projector on the c lowest eigenvectors of F, where
\* c is num_occ when 0 <= num_occ <= n, n when num_occ > n, and
\* n + num_occ (not below 0) when num_occ < 0.
DensityUsesSlicedColumns ==
  DensityCalled =>
    LET n == Len(dm.F)
        c == CHOOSE x \in 0..n :
               \/ 0 <= dm.num_occ /\ dm.num_occ <= n /\ x = dm.num_occ
               \/ dm.num_occ > n /\ x = n
               \/ dm.num_occ < 0 /\ n + dm.num_occ >= 0 /\ x = n + dm.num_occ
               \/ n + dm.num_occ < 0 /\ x = 0
    IN /\ dm.columns = c
       /\ Trace(dm.D) = c
       /\ IsDiagonal(dm.D)
       /\ \A p \in 1..n : dm.D[p][p] \in { 0, 1 }
       /\ \A p \in 1..n : \A q \in 1..n :
            (dm.D[p][p] = 1 /\ dm.D[q][q] = 0) => dm.F[p][p] <= dm.F[q][q]

\* a call that occupies some but not all orbitals, the lowest ones
DensityOfLowestOrbitals ==
  /\ DensityCalled
  /\ 0 < dm.num_occ
  /\ dm.num_occ < Len(dm.F)
  /\ Trace(dm.D) = dm.num_occ
  /\ \E p \in 1..Len(dm.F) : \E q \in 1..Len(dm.F) :
       dm.D[p][p] = 1 /\ dm.D[q][q] = 0 /\ dm.F[p][p] < dm.F[q][q] /\ q < p

\* C9: calculate_fock_matrix(H, M, D, chi) returns what
\* fast_fock_matrix(H, M, D) returns for the same arguments.
FockBuildsInterchangeable ==
  ret.op = "calculate_fock_matrix" =>
    ret.val = << fast_fock_matrix(ret.args[1].H, ret.args[1].M,
                                  ret.args[1].D) >>

\* C10: while scf_cycle runs and when it has returned, density_matrix,
\* fock_matrix and the system parameters are what they were at entry, and
\* every pass builds its operator from the entry density; the returned pair
\* is in the fields only once kernel has stored it.
ScfCycleLeavesFields ==
  /\ (cycle_outcome = "running" \/ ret.op = "scf_cycle") =>
       /\ density_matrix = entry.density
       /\ fock_matrix = entry.fock
       /\ parameters = entry.parameters
  /\ (builds >= 1 /\ cycle_outcome # "none") =>
       fock_input = << entry.density >>
  /\ ret.op = "kernel" =>
       density_matrix = loop_density[1] /\ fock_matrix = loop_fock

\* a second pass was built while the density produced by the first differs
\* from the field
SecondPassFromEntryDensity ==
  /\ pc = "loop"
  /\ builds >= 2
  /\ loop_density # << density_matrix >>
  /\ density_matrix = entry.density

====
